---- MODULE Spec2Model ----
(***************************************************************************)
(* Model of the authenticated file-content endpoint:                       *)
(*   files/authentication.py  JWTAuthenticationFromQuery.authenticate      *)
(*   files/views.py           FileViewSet.content (OPTIONS/GET/PUT/PATCH)  *)
(* A request runs the framework pipeline the view declares (authentication *)
(* class, then permission class, then the handler body).  File names and   *)
(* contents are sequences of one-character strings, so that the storage    *)
(* layer's name derivation is computed and not assumed.                    *)
(***************************************************************************)
EXTENDS Integers, Sequences, FiniteSets, TLC

\* ---------------------------------------------------------------- bounds
NumWorkers == 2
MaxBlobs == 2

Workers == 1..NumWorkers

\* ------------------------------------------------------------ identities
Users == {"alice", "bob"}
Anonymous == "AnonymousUser"

\* ---------------------------------------------------------------- tokens
NoToken == "<None>"
EmptyToken == ""
QueryTokens == {NoToken, EmptyToken, "tokA", "tokB", "expired", "unreachable"}
HeaderTokens == {NoToken, "tokA", "tokB", "expired", "unreachable"}

\* ------------------------------------------------------- names, contents
NULL == << >>
NoFile == [present |-> FALSE, name |-> << >>, content |-> << >>]
Upload(n, c) == [present |-> TRUE, name |-> n, content |-> c]
\* The uploads of the content specification: none, a clean name with two
\* contents, and a name the storage layer rewrites (a space, an extension).
Uploads ==
  { NoFile,
    Upload(<<"a">>, <<"x">>), Upload(<<"a">>, <<"x", "y">>),
    Upload(<<"a", " ", "a", ".", "t">>, <<"x">>) }
\* The uploads of the credential specification: none, a clean name, a name
\* the storage layer refuses (blank) and one the multipart parser drops (".").
AuthUploads ==
  { NoFile, Upload(<<"a">>, <<"x">>), Upload(<<" ">>, <<"x">>),
    Upload(<<".">>, <<"x">>) }
RandomStrings == {ToString(i) : i \in 1..MaxBlobs}
WordChars == {"a", "t", "_"} \cup RandomStrings

WriteMethods == {"PUT", "PATCH"}
\* The records that exist, and the identifiers requests name (one of them
\* names no record).
RecordIds == {1}
Pks == RecordIds \cup {2}
Owner(r) == "alice"

VARIABLES db, storage, now, inst, last, lastCommit, persisted, roundtrip

vars == <<db, storage, now, inst, last, lastCommit, persisted, roundtrip>>

\* ===================================================== credential resolver
\* self.get_validated_token(token) followed by self.get_user(validated_token):
\* the outcome of the external validator for a raw token string.
Validate(token) ==
  IF token = "tokA" THEN [outcome |-> "ok", user |-> "alice"]
  ELSE IF token = "tokB" THEN [outcome |-> "ok", user |-> "bob"]
  ELSE IF token = "unreachable" THEN [outcome |-> "Exception", user |-> Anonymous]
  ELSE [outcome |-> "InvalidToken", user |-> Anonymous]

AuthNone == [tag |-> "None", user |-> Anonymous, status |-> 0, kind |-> ""]
AuthUser(u) == [tag |-> "user", user |-> u, status |-> 0, kind |-> ""]
AuthRaise(st, k) == [tag |-> "raise", user |-> Anonymous, status |-> st, kind |-> k]

\* super().authenticate(request): the header-based resolution of the base
\* class.  No header: None.  A header token the validator rejects raises the
\* validator's own InvalidToken (401); any other validator error propagates.
header_authenticate(header) ==
  IF header = NoToken THEN AuthNone
  ELSE LET v == Validate(header)
       IN IF v.outcome = "ok" THEN AuthUser(v.user)
          ELSE IF v.outcome = "InvalidToken" THEN AuthRaise(401, "InvalidToken")
          ELSE AuthRaise(500, "ServerError")

\* request.query_params.get('token') is truthy: present and not empty.
Truthy(token) == token # NoToken /\ token # EmptyToken

authenticate_fallthrough(method, query, header) ==
  IF method = "OPTIONS" THEN AuthNone
  ELSE LET v == Validate(query)
           h == header_authenticate(header)
       IN IF Truthy(query) /\ v.outcome = "ok" THEN AuthUser(v.user)
          ELSE IF h.tag # "None" THEN h
          ELSE AuthRaise(401, "NoCredential")

authenticate_isNotNone(method, query, header) ==
  IF method = "OPTIONS" THEN AuthNone
  ELSE IF query # NoToken
  THEN LET v == Validate(query)
       IN IF v.outcome = "ok" THEN AuthUser(v.user)
          ELSE AuthRaise(401, "InvalidQueryToken")
  ELSE LET h == header_authenticate(header)
       IN IF h.tag # "None" THEN h ELSE AuthRaise(401, "NoCredential")

\* JWTAuthenticationFromQuery.authenticate
authenticate(method, query, header) ==
  IF method = "OPTIONS" THEN AuthNone
  ELSE IF Truthy(query)
  THEN LET v == Validate(query)
       IN IF v.outcome = "ok" THEN AuthUser(v.user)
          ELSE AuthRaise(401, "InvalidQueryToken")
  ELSE LET h == header_authenticate(header)
       IN IF h.tag # "None" THEN h ELSE AuthRaise(401, "NoCredential")

\* ============================================================ file names
Max(S) == CHOOSE m \in S : \A x \in S : x <= m
LastIndexOf(s, c) == Max({0} \cup {i \in 1..Len(s) : s[i] = c})

RECURSIVE LStrip(_)
LStrip(s) == IF s # << >> /\ Head(s) = " " THEN LStrip(Tail(s)) ELSE s
RECURSIVE RStrip(_)
RStrip(s) ==
  IF s # << >> /\ s[Len(s)] = " " THEN RStrip(SubSeq(s, 1, Len(s) - 1)) ELSE s
ValidChar(c) == c \in WordChars \cup {"-", "."}

\* Storage.get_valid_name: strip, spaces to underscores, drop every character
\* outside [-\w.].
get_valid_name(name) ==
  LET s == RStrip(LStrip(name))
      u == [i \in 1..Len(s) |-> IF s[i] = " " THEN "_" ELSE s[i]]
  IN SelectSeq(u, ValidChar)

\* The names Django refuses (SuspiciousFileOperation / dropped upload).
Refused(n) == n \in { << >>, <<".">>, <<".", ".">> }

\* os.path.basename and os.path.dirname (with the trailing separator kept).
basename(p) == SubSeq(p, LastIndexOf(p, "/") + 1, Len(p))
dirname(p) == SubSeq(p, 1, LastIndexOf(p, "/"))

\* os.path.splitext on a base name: the last dot splits, unless only dots
\* precede it.
splitext(f) ==
  LET d == LastIndexOf(f, ".")
  IN IF d > 0 /\ \E j \in 1..(d - 1) : f[j] # "."
     THEN [root |-> SubSeq(f, 1, d - 1), ext |-> SubSeq(f, d, Len(f))]
     ELSE [root |-> f, ext |-> << >>]

\* The directory the model's file field uploads into.
upload_to == <<"d", "/">>

\* FileField.generate_filename: upload_to joined with the valid name.
generate_filename(name) == upload_to \o get_valid_name(name)

\* Storage.get_alternative_name: root + "_" + random string + extension.
get_alternative_name(key, r) ==
  LET sp == splitext(basename(key))
  IN dirname(key) \o sp.root \o <<"_", r>> \o sp.ext

get_available_name_overwrite(key, st) == {key}

\* Storage.get_available_name: the names storage.save may end up using; the
\* random string is any one that makes the name free.
get_available_name(key, st) ==
  IF key \notin DOMAIN st THEN {key}
  ELSE {get_alternative_name(key, r) : r \in RandomStrings} \ DOMAIN st

\* 'file' in request.FILES: the multipart parser drops an upload whose file
\* name is empty, "." or "..".
InFILES(file) == file.present /\ ~Refused(file.name)

\* ======================================================= content handler
Response(st, k) ==
  [tag |-> "resp", status |-> st, kind |-> k, body |-> << >>,
   filename |-> << >>, file_url |-> << >>]
SaveDecision ==
  [tag |-> "save", status |-> 0, kind |-> "Pending", body |-> << >>,
   filename |-> << >>, file_url |-> << >>]

\* permissions.IsAuthenticated / request.user.is_authenticated
is_authenticated(user) == user \in Users

get_queryset_owned(user) == {r \in DOMAIN db : db[r].user = user}

\* queryset = FileModel.objects.all(): the records get_object looks pk up in.
get_queryset(user) == DOMAIN db

\* FileResponse(instance.file, as_attachment=True, filename=instance.file.name):
\* streams the stored blob; the attachment name is the base name of the
\* storage name.
FileResponse(name) ==
  IF name \in DOMAIN storage
  THEN [tag |-> "resp", status |-> 200, kind |-> "Stream",
        body |-> storage[name].data, filename |-> basename(name),
        file_url |-> << >>]
  ELSE Response(500, "ServerError")

content_get_noNullCheck(instance) == FileResponse(instance.file)

\* GET branch
content_get(instance) ==
  IF instance.file = NULL THEN Response(404, "ContentNotFound")
  ELSE FileResponse(instance.file)

\* PUT/PATCH branch up to the call of instance.file.save
content_put(file) ==
  IF ~InFILES(file) THEN Response(400, "MissingPayload")
  ELSE IF Refused(get_valid_name(file.name))
  THEN Response(400, "SuspiciousFileOperation")
  ELSE SaveDecision

content_payloadFirst(user, method, pk, file) ==
  IF method = "OPTIONS" THEN Response(200, "OK")
  ELSE IF ~is_authenticated(user) THEN Response(401, "AuthRequired")
  ELSE IF method # "GET" /\ ~InFILES(file) THEN Response(400, "MissingPayload")
  ELSE IF pk \notin get_queryset(user) THEN Response(404, "RecordNotFound")
  ELSE IF method = "GET" THEN content_get(db[pk])
  ELSE content_put(file)

\* FileViewSet.content: the handler body
content(user, method, pk, file) ==
  IF method = "OPTIONS" THEN Response(200, "OK")
  ELSE IF ~is_authenticated(user) THEN Response(401, "AuthRequired")
  ELSE IF pk \notin get_queryset(user) THEN Response(404, "RecordNotFound")
  ELSE IF method = "GET" THEN content_get(db[pk])
  ELSE content_put(file)

\* The request pipeline the @action declares: authentication_classes, then
\* permission_classes, then the handler body.
dispatch(method, pk, query, header, file) ==
  LET auth == authenticate(method, query, header)
  IN IF auth.tag = "raise"
     THEN [user |-> Anonymous, d |-> Response(auth.status, auth.kind)]
     ELSE IF ~is_authenticated(auth.user)
     THEN [user |-> Anonymous, d |-> Response(401, "NotAuthenticated")]
     ELSE [user |-> auth.user, d |-> content(auth.user, method, pk, file)]

\* ================================================================= state
Request(method, pk, query, header, file) ==
  [method |-> method, pk |-> pk, query |-> query, header |-> header,
   hasFile |-> file.present]

Done(req, user, d) ==
  [method |-> req.method, pk |-> req.pk, query |-> req.query,
   header |-> req.header, hasFile |-> req.hasFile, user |-> user,
   status |-> d.status, kind |-> d.kind, body |-> d.body,
   filename |-> d.filename, file_url |-> d.file_url]

Idle ==
  [active |-> FALSE, req |-> Request("", 0, NoToken, NoToken, NoFile),
   user |-> Anonymous, owner |-> Anonymous, key |-> << >>, name |-> << >>,
   content |-> << >>]

NoCommit == [set |-> FALSE, key |-> << >>, name |-> << >>, content |-> << >>]
NoRoundtrip == [active |-> FALSE, name |-> << >>, content |-> << >>]

Put(st, key, blob) ==
  [k \in DOMAIN st \cup {key} |-> IF k = key THEN blob ELSE st[k]]

StrictPrefixes(c) == {SubSeq(c, 1, n) : n \in 0..(Len(c) - 1)}

Init ==
  /\ db = [r \in RecordIds |-> [user |-> Owner(r), file |-> NULL, updated_at |-> 0]]
  /\ storage = [k \in {} |-> [data |-> << >>, complete |-> TRUE]]
  /\ now = 0
  /\ inst = [w \in Workers |-> Idle]
  /\ last = Done(Request("", 0, NoToken, NoToken, NoFile), Anonymous, Response(0, ""))
  /\ lastCommit = [r \in RecordIds |-> NoCommit]
  /\ persisted = {}
  /\ roundtrip = NoRoundtrip

\* The workers with no request in flight; the server hands a request to one
\* of them (they are interchangeable: the lowest is taken).
FreeWorkers == {w \in Workers : ~inst[w].active}
NextWorker == CHOOSE w \in FreeWorkers : \A v \in FreeWorkers : w <= v

\* ================================================================ actions
\* OPTIONS request
Options(pk, query, header, file) ==
  /\ FreeWorkers # {}
  /\ LET r == dispatch("OPTIONS", pk, query, header, file)
     IN last' = Done(Request("OPTIONS", pk, query, header, file), r.user, r.d)
  /\ roundtrip' = NoRoundtrip
  /\ UNCHANGED <<db, storage, now, inst, lastCommit, persisted>>

\* GET request
Read(pk, query, header) ==
  /\ FreeWorkers # {}
  /\ LET r == dispatch("GET", pk, query, header, NoFile)
     IN /\ last' = Done(Request("GET", pk, query, header, NoFile), r.user, r.d)
        /\ roundtrip' =
             IF last.kind = "Updated" /\ last.pk = pk /\ is_authenticated(r.user)
             THEN [active |-> TRUE, name |-> lastCommit[pk].name,
                   content |-> lastCommit[pk].content]
             ELSE NoRoundtrip
  /\ UNCHANGED <<db, storage, now, inst, lastCommit, persisted>>

\* PUT/PATCH request answered before instance.file.save is called
WriteRejected(method, pk, query, header, file) ==
  /\ FreeWorkers # {}
  /\ method \in WriteMethods
  /\ LET r == dispatch(method, pk, query, header, file)
     IN /\ r.d.tag = "resp"
        /\ last' = Done(Request(method, pk, query, header, file), r.user, r.d)
  /\ roundtrip' = NoRoundtrip
  /\ UNCHANGED <<db, storage, now, inst, lastCommit, persisted>>

\* PUT/PATCH request: instance.file.save stores the blob (storage.save)
WriteStore(method, pk, query, header, file) ==
  /\ FreeWorkers # {}
  /\ method \in WriteMethods
  /\ Cardinality(DOMAIN storage) < MaxBlobs
  /\ LET r == dispatch(method, pk, query, header, file)
         req == Request(method, pk, query, header, file)
     IN /\ r.d.tag = "save"
        /\ \E key \in get_available_name(generate_filename(file.name), storage) :
             /\ storage' = Put(storage, key, [data |-> file.content, complete |-> TRUE])
             /\ persisted' = persisted \cup {[key |-> key, content |-> file.content]}
             /\ inst' = [inst EXCEPT ![NextWorker] =
                  [active |-> TRUE, req |-> req, user |-> r.user,
                   owner |-> db[pk].user, key |-> key, name |-> file.name,
                   content |-> file.content]]
        /\ last' = Done(req, r.user, r.d)
  /\ roundtrip' = NoRoundtrip
  /\ UNCHANGED <<db, now, lastCommit>>

record_after_failed_save_assigned(pk, key) == [db EXCEPT ![pk].file = key]

\* instance.file.save raised inside storage.save: the field and the record
\* have not been assigned yet.
record_after_failed_save(pk, key) == db

\* What a storage.save that raises leaves behind: nothing, or a partly
\* written blob under the name it had picked.
FailedSaveOutcomes(key, c) ==
  {storage} \cup
  (IF Cardinality(DOMAIN storage) < MaxBlobs
   THEN {Put(storage, key, [data |-> p, complete |-> FALSE]) : p \in StrictPrefixes(c)}
   ELSE {})

\* PUT/PATCH request: storage.save raises (PersistenceFailure)
WriteStoreFails(method, pk, query, header, file) ==
  /\ FreeWorkers # {}
  /\ method \in WriteMethods
  /\ LET r == dispatch(method, pk, query, header, file)
     IN /\ r.d.tag = "save"
        /\ \E key \in get_available_name(generate_filename(file.name), storage) :
             /\ storage' \in FailedSaveOutcomes(key, file.content)
             /\ db' = record_after_failed_save(pk, key)
        /\ last' = Done(Request(method, pk, query, header, file), r.user,
                        Response(500, "PersistenceFailure"))
  /\ roundtrip' = NoRoundtrip
  /\ UNCHANGED <<now, inst, lastCommit, persisted>>

\* instance.save() after the blob was stored, then the success response
WriteCommit(w) ==
  /\ inst[w].active
  /\ LET i == inst[w]
         pk == i.req.pk
     IN /\ db' = [db EXCEPT ![pk] =
                    [user |-> i.owner, file |-> i.key, updated_at |-> now + 1]]
        /\ lastCommit' = [lastCommit EXCEPT ![pk] =
                    [set |-> TRUE, key |-> i.key, name |-> i.name,
                     content |-> i.content]]
        /\ last' = Done(i.req, i.user,
                     [tag |-> "resp", status |-> 200, kind |-> "Updated",
                      body |-> << >>, filename |-> << >>, file_url |-> i.key])
  /\ now' = now + 1
  /\ inst' = [inst EXCEPT ![w] = Idle]
  /\ roundtrip' = NoRoundtrip
  /\ UNCHANGED <<storage, persisted>>

\* ---------------------------------------------------------- content spec
\* Requests of the content specification carry a valid credential: a query
\* token of one identity or a header token of the other.
ContentCreds == { <<"tokA", NoToken>>, <<NoToken, "tokB">> }

Next ==
  \/ \E pk \in Pks, c \in ContentCreds : Read(pk, c[1], c[2])
  \/ \E pk \in Pks, c \in ContentCreds, f \in Uploads :
       WriteRejected("PUT", pk, c[1], c[2], f)
  \/ \E pk \in Pks, c \in ContentCreds, f \in Uploads :
       WriteStore("PUT", pk, c[1], c[2], f)
  \/ \E pk \in Pks, c \in ContentCreds, f \in Uploads :
       WriteStoreFails("PUT", pk, c[1], c[2], f)
  \/ \E w \in Workers : WriteCommit(w)

Spec == Init /\ [][Next]_vars

\* ------------------------------------------------------ credential spec
\* Every method with every combination of query token and header token, for
\* the requests the pipeline answers before any blob is stored.
NextAuth ==
  \/ \E pk \in Pks, q \in QueryTokens, h \in HeaderTokens, f \in AuthUploads :
       Options(pk, q, h, f)
  \/ \E pk \in Pks, q \in QueryTokens, h \in HeaderTokens : Read(pk, q, h)
  \/ \E m \in WriteMethods, pk \in Pks, q \in QueryTokens, h \in HeaderTokens,
        f \in AuthUploads : WriteRejected(m, pk, q, h, f)

SpecAuth == Init /\ [][NextAuth]_vars

\* ================================================================ claims
\* The response kinds with which the pipeline refuses a request before the
\* handler body has an identity to work with.
AuthFailureKinds ==
  {"InvalidQueryToken", "NoCredential", "InvalidToken", "ServerError",
   "NotAuthenticated", "AuthRequired"}
TokenValid(t) == t # NoToken /\ Validate(t).outcome = "ok"

\* C1: every OPTIONS request to the content endpoint, whatever tokens it
\* carries, is answered 200 with an empty body.  (Stated as claimed; the
\* declared permission class refuses the anonymous preflight request.)
C1_OptionsAlwaysOk ==
  last.method = "OPTIONS" =>
    last.status = 200 /\ last.kind = "OK" /\ last.body = << >>

\* C2: a non-OPTIONS request with a query token that fails validation is
\* refused with InvalidQueryToken (401) even when it also carries a header
\* token, valid or not: the header is never consulted.
C2_InvalidQueryTokenWins ==
  ( /\ last.method \in {"GET", "PUT", "PATCH"}
    /\ last.query \notin {NoToken, EmptyToken}
    /\ ~TokenValid(last.query)
    /\ last.header # NoToken )
  => /\ last.status = 401
     /\ last.kind = "InvalidQueryToken"
     /\ last.user = Anonymous

C2_Witness ==
  /\ last.method = "GET"
  /\ last.query = "expired"
  /\ last.header = "tokB"
  /\ last.kind = "InvalidQueryToken"

\* C5: a non-OPTIONS request with no query token whose header token is absent
\* or invalid is refused with NoCredential (401); no validator error reaches
\* the caller.  (Stated as claimed; a rejected header token surfaces the
\* validator's own error.)
C5_HeaderFailureIsNoCredential ==
  ( /\ last.method \in {"GET", "PUT", "PATCH"}
    /\ last.query = NoToken
    /\ ~TokenValid(last.header) )
  => last.status = 401 /\ last.kind = "NoCredential"

\* C10: a non-OPTIONS request whose token query parameter is the empty string
\* is resolved from the header alone: never InvalidQueryToken; the header
\* token's identity when that token is valid, and the same refusal as a
\* request without query token otherwise.
C10_EmptyQueryTokenUsesHeader ==
  ( /\ last.method \in {"GET", "PUT", "PATCH"}
    /\ last.query = EmptyToken )
  => /\ last.kind # "InvalidQueryToken"
     /\ TokenValid(last.header) =>
          /\ last.user = Validate(last.header).user
          /\ last.kind \notin AuthFailureKinds
     /\ ~TokenValid(last.header) =>
          /\ last.user = Anonymous
          /\ last.kind = (IF last.header = NoToken THEN "NoCredential"
                          ELSE IF Validate(last.header).outcome = "InvalidToken"
                          THEN "InvalidToken" ELSE "ServerError")

C10_Witness ==
  /\ last.method = "GET"
  /\ last.query = EmptyToken
  /\ last.header = "tokB"
  /\ last.user = "bob"
  /\ last.kind = "ContentNotFound"

\* C7 as claimed: an authenticated WRITE without a 'file' field yields 400
\* MissingPayload for every record identifier, existing or not.
C7_MissingPayloadBeforeLookup ==
  ( /\ last.method \in WriteMethods
    /\ is_authenticated(last.user)
    /\ ~last.hasFile )
  => last.status = 400 /\ last.kind = "MissingPayload"

\* C7 amended: WRITE checks authentication, then looks the record up, then
\* checks the payload: an unauthenticated WRITE is refused whatever else it
\* carries; an authenticated WRITE naming no record yields 404 RecordNotFound
\* with or without a 'file' field; an authenticated WRITE without a 'file'
\* field yields 400 MissingPayload exactly when the record exists.
C7_LookupBeforePayload ==
  last.method \in WriteMethods =>
    /\ ~is_authenticated(last.user) => last.kind \in AuthFailureKinds
    /\ (is_authenticated(last.user) /\ last.pk \notin DOMAIN db) =>
         last.status = 404 /\ last.kind = "RecordNotFound"
    /\ (is_authenticated(last.user) /\ last.pk \in DOMAIN db /\ ~last.hasFile) =>
         last.status = 400 /\ last.kind = "MissingPayload"

C7_Witness ==
  /\ last.method = "PUT"
  /\ is_authenticated(last.user)
  /\ ~last.hasFile
  /\ last.pk \notin DOMAIN db
  /\ last.kind = "RecordNotFound"

\* C6: an authenticated READ of an existing record whose blob reference is
\* null yields 404 ContentNotFound and no bytes; a 200 stream answer to a
\* READ implies the record exists and its blob reference is not null.
C6_NullBlobIsContentNotFound ==
  last.method = "GET" =>
    /\ ( /\ is_authenticated(last.user)
         /\ last.pk \in DOMAIN db
         /\ db[last.pk].file = NULL )
       => /\ last.status = 404
          /\ last.kind = "ContentNotFound"
          /\ last.body = << >>
    /\ (last.status = 200 \/ last.kind = "Stream") =>
          /\ last.pk \in DOMAIN db
          /\ db[last.pk].file # NULL

C6_Witness ==
  /\ last.method = "GET"
  /\ is_authenticated(last.user)
  /\ last.pk \in DOMAIN db
  /\ db[last.pk].file = NULL
  /\ last.kind = "ContentNotFound"
  /\ storage # << >>

\* C3: a successful authenticated WRITE followed immediately by an
\* authenticated READ of the same record returns 200 with exactly the bytes
\* and exactly the file name just written.  (Stated as claimed; the
\* attachment name is the storage name, not the name written.)
C3_WriteReadRoundTrip ==
  roundtrip.active =>
    /\ last.status = 200
    /\ last.body = roundtrip.content
    /\ last.filename = roundtrip.name

\* C4: a WRITE that fails while the blob is persisted leaves the record's
\* blob reference and timestamp, every stored blob and hence the answer to a
\* READ as they were; and the record never refers to a blob that is missing
\* or was not completely persisted.
RecordsReferToCompleteBlobs ==
  \A r \in DOMAIN db :
    db[r].file # NULL =>
      db[r].file \in DOMAIN storage /\ storage[db[r].file].complete

C4_FailedWriteIsAtomic ==
  [][ /\ last'.kind = "PersistenceFailure" =>
           /\ db' = db
           /\ now' = now
           /\ \A k \in DOMAIN storage :
                k \in DOMAIN storage' /\ storage'[k] = storage[k]
           /\ \A r \in DOMAIN db : content_get(db[r])' = content_get(db[r])
      /\ RecordsReferToCompleteBlobs' ]_vars

C4_Witness ==
  /\ last.kind = "PersistenceFailure"
  /\ last.pk \in DOMAIN db
  /\ db[last.pk].file # NULL
  /\ \E k \in DOMAIN storage : ~storage[k].complete

\* C8: the answer to a READ or WRITE and the record it leaves do not depend
\* on who asks: for any two identities the handler decides the same on the
\* same request, a request was answered as the owner's would be, and no
\* write replaces the record's owner by the requester.
C8_OwnerIsNeverChecked ==
  /\ \A u1 \in Users, u2 \in Users, m \in {"GET", "PUT", "PATCH"},
        pk \in Pks, f \in Uploads :
       content(u1, m, pk, f) = content(u2, m, pk, f)
  /\ (last.method = "GET" /\ is_authenticated(last.user)) =>
       LET d == content(Owner(last.pk), "GET", last.pk, NoFile)
       IN last.status = d.status /\ last.kind = d.kind /\ last.body = d.body
          /\ last.filename = d.filename
  /\ \A r \in DOMAIN db : db[r].user = Owner(r)
  /\ \A w \in Workers : inst[w].active => inst[w].owner = Owner(inst[w].req.pk)

C8_Witness ==
  /\ last.method = "GET"
  /\ last.user = "bob"
  /\ last.pk \in DOMAIN db
  /\ db[last.pk].user = "alice"
  /\ last.kind = "Stream"
  /\ lastCommit[last.pk].set
  /\ last.body = lastCommit[last.pk].content

\* C9: under every interleaving of WRITEs to a record (persist the blob, then
\* commit the record), the record's blob reference is its initial null or
\* the completely persisted blob of exactly one write; after a commit it is
\* the blob of the write that committed last, with that write's bytes; and a
\* READ answered 200 returns the bytes and name of one persisted blob.
C9_LastCommitWins ==
  /\ \A r \in DOMAIN db :
       \/ db[r].file = NULL /\ ~lastCommit[r].set
       \/ /\ db[r].file \in DOMAIN storage
          /\ storage[db[r].file].complete
          /\ Cardinality({p \in persisted : p.key = db[r].file}) = 1
          /\ [key |-> db[r].file, content |-> storage[db[r].file].data] \in persisted
          /\ lastCommit[r].set
          /\ lastCommit[r].key = db[r].file
          /\ lastCommit[r].content = storage[db[r].file].data
  /\ (last.method = "GET" /\ last.status = 200) =>
       \E p \in persisted :
         /\ last.body = p.content
         /\ last.filename = basename(p.key)
         /\ p.key = db[last.pk].file

C9_Witness ==
  /\ last.kind = "Updated"
  /\ \E w \in Workers :
       /\ inst[w].active
       /\ inst[w].req.pk = last.pk
       /\ inst[w].key # db[last.pk].file
       /\ inst[w].name = lastCommit[last.pk].name
  /\ now = 1

====
